---- MODULE Spec2Model ----
(***************************************************************************)
(* Model of the e-paper image loader firmware (src/src/main.cpp): the      *)
(* framebuffer, the two image codecs, the snapshot encoder, the calls the  *)
(* firmware issues to the display controller, the one-shot timers and the  *)
(* request handlers.                                                       *)
(*                                                                         *)
(* The framebuffer `image` is the set of bit positions of the backing      *)
(* array that hold 0 (BLACK); every other bit holds 1 (WHITE).             *)
(***************************************************************************)
EXTENDS Integers, Sequences, FiniteSets, TLC

VARIABLES
    fs,            \* LittleFS: file name -> file content (NoFile when absent)
    image,         \* static unsigned char image[]: the bit positions holding 0
    paint,         \* Paint's logical width and height
    currentImage,  \* static String currentImage
    epdState,      \* static String epdState
    epd,           \* the display controller as the firmware's calls left it
    epdBefore,     \* the display controller before the last step's calls
    issued,        \* the controller calls the last step issued, in order
    drawn,         \* the DrawPixel calls the last step issued: {<<x, y, colour>>}
    detached,      \* the pending callbacks the last step's once() call detached
    resized,       \* Paint's dimensions after each SetWidth/SetHeight of the last step
    ticker,        \* /qr's static Ticker: its pending callbacks
    loadTicker,    \* handleUpload's static Ticker: its pending callbacks
    loadFileName,  \* handleUpload's static String loadFileName
    qr,            \* qr_code_version, qr_code_scale and the text's module pattern
    ctx,           \* the two execution contexts: what each is running, and where
    last,          \* what the last step was: context, operation, file, outcome
    snap,          \* the file snapshot() wrote last (NoFile before the first)
    nreq           \* the requests served so far

vars == <<fs, image, paint, currentImage, epdState, epd, epdBefore, issued,
          drawn, detached, resized, ticker, loadTicker, loadFileName, qr, ctx, last, snap,
          nreq>>

(***************************************************************************)
(* Program constants.                                                      *)
(***************************************************************************)
BLACK == 0
WHITE == 1
image_width == 200
image_height == 200
BUFFPIXEL == 20
BmpSignature == 19778
BmpHeaderBytes == 34
SnapshotOffset == 54

(***************************************************************************)
(* Bounds of the model.                                                    *)
(***************************************************************************)
MaxSide == 2
MaxRequests == 2
MaxWidth == 8

Min(a, b) == IF a < b THEN a ELSE b
Abs(a) == IF a < 0 THEN -a ELSE a

(***************************************************************************)
(* Paint: the packed 1-bit framebuffer.                                    *)
(***************************************************************************)
PaintBit(pw, x, y) == y * pw + x

DrawPixel(img, pw, ph, x, y, colored) ==
    IF x < 0 \/ x >= pw \/ y < 0 \/ y >= ph
    THEN img
    ELSE IF colored # 0
         THEN img \ {PaintBit(pw, x, y)}
         ELSE img \cup {PaintBit(pw, x, y)}

PaintClear(img, pw, ph, colored) ==
    IF colored # 0
    THEN img \ (0 .. (pw * ph - 1))
    ELSE img \cup (0 .. (pw * ph - 1))

\* A batch of DrawPixel calls on distinct pixels, as one update.
DrawAll(img, pw, ph, writes) ==
    LET inside == {w \in writes : ~(w[1] < 0 \/ w[1] >= pw \/ w[2] < 0 \/ w[2] >= ph)}
    IN  (img \ {PaintBit(pw, w[1], w[2]) : w \in inside})
            \cup {PaintBit(pw, w[1], w[2]) : w \in {v \in inside : v[3] = BLACK}}

(***************************************************************************)
(* Files.  A bitmap file is its header fields and its pixel rows: `stride` *)
(* bytes per stored row, `nrows` stored rows, 3 bytes (B, G, R) per pixel  *)
(* and zero bytes as padding.  `pix` names the picture: a pattern, or the  *)
(* set of its black pixels (column, row; row 0 is the top row).            *)
(***************************************************************************)
NoFile == [kind |-> "none"]

RowPad(w) == ((w * 3 + 3) \div 4) * 4

Pattern(name) == [pat |-> name, black |-> {}]

BmpFile(sig, planes, depth, comp, w, h, pix) ==
    [kind |-> "bmp", sig |-> sig, planes |-> planes, depth |-> depth, comp |-> comp,
     off |-> SnapshotOffset, width |-> w, height |-> h,
     stride |-> RowPad(w), nrows |-> Abs(h), pix |-> pix]

PngFile(ok, w, h, pix) ==
    [kind |-> "png", ok |-> ok, width |-> w, height |-> h, pix |-> pix]

OtherFile == [kind |-> "other"]

\* The colour <<R, G, B>> of the picture's pixel at column c, row r.
SrcRgb(pix, c, r) ==
    CASE pix.pat = "white" -> <<255, 255, 255>>
      [] pix.pat = "black" -> <<0, 0, 0>>
      [] pix.pat = "p00"   -> IF c = 0 /\ r = 0 THEN <<0, 0, 0>> ELSE <<255, 255, 255>>
      [] pix.pat = "p10"   -> IF c = 1 /\ r = 0 THEN <<0, 0, 0>> ELSE <<255, 255, 255>>
      [] pix.pat = "dim"   -> IF c = 0 /\ r = 0 THEN <<0, 0, 1>> ELSE <<0, 0, 0>>
      [] pix.pat = "set"   -> IF <<c, r>> \in pix.black THEN <<0, 0, 0>> ELSE <<255, 255, 255>>
      [] pix.pat = "rgb"   -> pix.rgb

FileSize(f) == f.off + f.stride * f.nrows

\* The byte at position p of a bitmap file's pixel data.
FileByte(f, p) ==
    LET k == p - f.off
    IN  IF k < 0 \/ f.stride = 0 THEN 0
        ELSE LET fr     == k \div f.stride
                 within == k % f.stride
                 r      == IF f.height > 0 THEN f.nrows - 1 - fr ELSE fr
                 rgb    == SrcRgb(f.pix, within \div 3, r)
             IN  IF within >= 3 * f.width THEN 0
                 ELSE CASE within % 3 = 0 -> rgb[3]
                        [] within % 3 = 1 -> rgb[2]
                        [] within % 3 = 2 -> rgb[1]

(***************************************************************************)
(* bmpDraw.                                                                *)
(***************************************************************************)
\* uint8_t bmpDepth = read16(bmpFile)
bmpDepth(f) == f.depth % 256

\* A signature check that accepts every file.
SignatureOkMutant(f) == TRUE

\* if (read16(bmpFile) == 0x4D42)
SignatureOk(f) == f.sig = BmpSignature

goodBmp(f) ==
    /\ SignatureOk(f)
    /\ f.planes = 1
    /\ bmpDepth(f) = 24
    /\ f.comp = 0

\* The decoder's locals once bmpDraw has returned, or never ran.
bmpIdle ==
    [pc |-> "done", good |-> FALSE, w |-> 0, h |-> 0, flip |-> TRUE, rowSize |-> 0,
     bmpHeight |-> 0, off |-> 0, row |-> 0, col |-> 0,
     buffidx |-> 3 * BUFFPIXEL, lcdidx |-> 0, lcdbuffer |-> <<>>,
     sdbuffer |-> [i \in 1 .. 3 * BUFFPIXEL |-> -1], fpos |-> 0]

\* bmpDraw from its entry to the first scanline: the early returns, the header
\* parse and the crop.
bmpStart(f, pw, ph, x, y) ==
    IF x >= pw \/ y >= ph THEN bmpIdle
    ELSE IF f.kind # "bmp" THEN bmpIdle
    ELSE IF ~goodBmp(f) THEN bmpIdle
    ELSE LET bmpWidth  == f.width
             bmpHeight == Abs(f.height)
             w == IF (x + bmpWidth - 1) >= pw THEN pw - x ELSE bmpWidth
             h == IF (y + bmpHeight - 1) >= ph THEN ph - y ELSE bmpHeight
         IN  [bmpIdle EXCEPT !.pc = "row", !.good = TRUE, !.w = w, !.h = h,
                             !.flip = ~(f.height < 0), !.rowSize = RowPad(bmpWidth),
                             !.bmpHeight = bmpHeight, !.off = f.off,
                             !.fpos = BmpHeaderBytes]

\* A reload that leaves the index inside the first pixel of the chunk.
bmpReloadMutant(d, f) ==
    LET n == Min(3 * BUFFPIXEL, IF FileSize(f) > d.fpos THEN FileSize(f) - d.fpos ELSE 0)
    IN  [d EXCEPT !.sdbuffer = [i \in 1 .. 3 * BUFFPIXEL |->
                                    IF i <= n THEN FileByte(f, d.fpos + i - 1) ELSE @[i]],
                  !.fpos = @ + n,
                  !.buffidx = 1]

\* bmpFile.read(sdbuffer, sizeof(sdbuffer)): a short read at the end of the
\* file leaves the rest of the buffer as it was.
bmpReload(d, f) ==
    LET n == Min(3 * BUFFPIXEL, IF FileSize(f) > d.fpos THEN FileSize(f) - d.fpos ELSE 0)
    IN  [d EXCEPT !.sdbuffer = [i \in 1 .. 3 * BUFFPIXEL |->
                                    IF i <= n THEN FileByte(f, d.fpos + i - 1) ELSE @[i]],
                  !.fpos = @ + n,
                  !.buffidx = 0]

\* A conversion with | where the code has ||: the low 16 bits of
\* (r << 24) | (g << 8) | b.
bmpColourMutant(r, g, b) == (g * 256 + b) % 65536

\* lcdbuffer[lcdidx++] = (r << 24) | (g << 8) || b, stored in a uint16_t.
\* The 32-bit (r << 24) | (g << 8) is kept as its two 16-bit halves.
bmpColour(r, g, b) ==
    LET hi == (r * 256) % 65536
        lo == (g * 256) % 65536
    IN  (IF (hi # 0 \/ lo # 0) \/ b # 0 THEN 1 ELSE 0) % 65536

\* The next thing bmpDraw does is a pushColours call (which ends in yield()).
bmpAtPush(d) ==
    /\ d.pc = "col"
    /\ d.lcdidx > 0
    /\ (d.col >= d.w \/ d.buffidx >= 3 * BUFFPIXEL)

\* pushColours(row, col - lcdidx, lcdidx, lcdbuffer): its DrawPixel calls.
pushColours(row, col, lcdidx, lcdbuffer) ==
    {<<row, col + idx, IF lcdbuffer[idx + 1] # 0 THEN WHITE ELSE BLACK>> :
        idx \in 0 .. (lcdidx - 1)}

bmpPushWrites(d) == pushColours(d.row, d.col - d.lcdidx, d.lcdidx, d.lcdbuffer)

bmpAfterPush(d) == [d EXCEPT !.lcdidx = 0, !.lcdbuffer = <<>>]

\* A row loop whose counter stays where it was.
NextRowMutant(d) == [d EXCEPT !.pc = "row"]

\* for (row = 0; row < h; row++): the end of the loop body.
NextRow(d) == [d EXCEPT !.row = @ + 1, !.pc = "row"]

\* One step of bmpDraw's loops that is not a pushColours call.
bmpAdvance(d, f) ==
    IF d.pc = "row"
    THEN IF d.row < d.h
         THEN LET pos == IF d.flip
                         THEN d.off + (d.bmpHeight - 1 - d.row) * d.rowSize
                         ELSE d.off + d.row * d.rowSize
              IN  IF d.fpos # pos
                  THEN [d EXCEPT !.pc = "col", !.col = 0, !.fpos = pos,
                                 !.buffidx = 3 * BUFFPIXEL]
                  ELSE [d EXCEPT !.pc = "col", !.col = 0]
         ELSE [d EXCEPT !.pc = "done"]
    ELSE IF d.col < d.w
         THEN LET d1 == IF d.buffidx >= 3 * BUFFPIXEL THEN bmpReload(d, f) ELSE d
                  b  == d1.sdbuffer[d1.buffidx + 1]
                  g  == d1.sdbuffer[d1.buffidx + 2]
                  r  == d1.sdbuffer[d1.buffidx + 3]
              IN  [d1 EXCEPT !.buffidx = @ + 3,
                             !.lcdbuffer = Append(@, bmpColour(r, g, b)),
                             !.lcdidx = @ + 1,
                             !.col = @ + 1]
         ELSE NextRow(d)

\* bmpDraw up to its next pushColours call, or to its end.  Each step's
\* result n is a value before the next step is taken from it.
RECURSIVE bmpRun(_, _)
bmpRun(d, f) ==
    IF d.pc = "done" \/ bmpAtPush(d) THEN d
    ELSE CHOOSE r \in {bmpRun(n, f) : n \in {bmpAdvance(d, f)}} : TRUE

(***************************************************************************)
(* The compressed-image (PNG) codec.                                       *)
(***************************************************************************)
\* png.getLineAsRGB565: one pixel's 16-bit value.
Rgb565(rgb) == ((rgb[1] \div 8) * 2048) + ((rgb[2] \div 4) * 32) + (rgb[3] \div 8)

PngThreshold(us) == IF us # 0 THEN BLACK ELSE WHITE

\* PNGDraw for scanline y: its DrawPixel calls.
PNGDraw(f, y, pw) ==
    {<<i, y, PngThreshold(Rgb565(SrcRgb(f.pix, i, y)))>> :
        i \in 0 .. (Min(f.width, pw) - 1)}

\* png.decode: PNGDraw once per scanline of the file.
pngDecode(f, pw) == UNION {PNGDraw(f, y, pw) : y \in 0 .. (f.height - 1)}

\* uint16_t usPixels[320]
PngLineCapacity == 320

\* png.getLineAsRGB565(pDraw, usPixels, ...): the entries of usPixels it fills,
\* one per pixel of the scanline.
PngLineEntries(f) == f.width

\* A decode that writes past the end of usPixels.
PngOverflows(f) ==
    f.kind = "png" /\ f.ok /\ f.height > 0 /\ PngLineEntries(f) > PngLineCapacity

(***************************************************************************)
(* The snapshot encoder.                                                   *)
(***************************************************************************)
\* The bit snapshot() tests for pixel (col, row):
\* imageData[(row * convert_width + col) / 8] & (0x80 >> (col % 8)).
SnapshotBit(col, row, convert_width) ==
    8 * ((row * convert_width + col) \div 8) + (col % 8)

\* The bytes snapshot() writes per row: the pixels, then the padding.
SnapshotStride(convert_width) ==
    3 * convert_width
        + (IF convert_width % 4 # 0 THEN 4 - (convert_width % 4) ELSE 0)

\* The pixels snapshot() writes as 0,0,0.  Only a pixel whose tested bit lies
\* in a byte that holds a 0 bit can be one.
SnapshotBlack(img, convert_width, convert_height) ==
    LET bytes == {k \div 8 : k \in img}
        cand  == {i \in UNION {(8 * b) .. (8 * b + 7) : b \in bytes} :
                     i < convert_width * convert_height}
    IN  {<<i % convert_width, i \div convert_width>> :
            i \in {j \in cand :
                     SnapshotBit(j % convert_width, j \div convert_width, convert_width)
                        \in img}}

snapshot(img, pw, ph) ==
    [kind |-> "bmp", sig |-> BmpSignature, planes |-> 1, depth |-> 24, comp |-> 0,
     off |-> SnapshotOffset, width |-> pw, height |-> ph,
     stride |-> SnapshotStride(pw), nrows |-> ph,
     pix |-> [pat |-> "set", black |-> SnapshotBlack(img, pw, ph)]]

(***************************************************************************)
(* QR codes (the qrcode library) and their rasterisation.                  *)
(***************************************************************************)
QrSize(version) == 4 * version + 17

\* qrcode_getModule: whether module (x, y) is dark.
QrModule(pat, x, y) ==
    CASE pat = "corner" -> x = 0 /\ y = 0
      [] pat = "diag"   -> x = y
      [] pat = "edge"   -> x = 1 /\ y = 0

\* Paint::DrawFilledRectangle: its DrawPixel calls.
DrawFilledRectangle(x0, y0, x1, y1, colored) ==
    {<<i, j, colored>> : i \in x0 .. x1, j \in y0 .. y1}

\* One column x of display_qr_code's loop.
QrColumn(code, x, blockSize, display_x, display_y) ==
    UNION {LET rect_x == display_x + x * blockSize
               rect_y == display_y + y * blockSize
           IN  DrawFilledRectangle(rect_x, rect_y, rect_x + blockSize - 1,
                                   rect_y + blockSize - 1,
                                   IF QrModule(code.pat, x, y) THEN BLACK ELSE WHITE) :
           y \in 0 .. (code.size - 1)}

(***************************************************************************)
(* The display controller, as far as the firmware's calls determine it.    *)
(***************************************************************************)
epd_width == 200
epd_height == 200
Font24Height == 24
Font16Height == 16

EpdInitCalls == {"LDirInit", "HDirInit"}
EpdFrameCalls == {"Clear", "DisplayPartBaseWhiteImage", "SetFrameMemory",
                  "DisplayFrame", "DisplayPart"}

EpdPowered == [mode |-> "powered", base |-> FALSE, idle |-> FALSE, loaded |-> FALSE]

EpdCall(e, c) ==
    CASE c \in EpdInitCalls -> [e EXCEPT !.mode = "ready", !.base = FALSE, !.idle = FALSE]
      [] c = "Clear" -> [e EXCEPT !.idle = FALSE]
      [] c = "DisplayPartBaseWhiteImage" -> [e EXCEPT !.base = TRUE, !.idle = FALSE]
      [] c = "WaitUntilIdle" -> [e EXCEPT !.idle = TRUE]
      [] c = "SetFrameMemory" -> [e EXCEPT !.loaded = TRUE, !.idle = FALSE]
      [] c = "DisplayFrame" -> [e EXCEPT !.loaded = FALSE, !.idle = FALSE]
      [] c = "DisplayPart" -> [e EXCEPT !.idle = FALSE]
      [] c = "Sleep" -> [e EXCEPT !.mode = "asleep", !.idle = FALSE]

RECURSIVE EpdRun(_, _)
EpdRun(e, calls) ==
    IF calls = <<>> THEN e ELSE EpdRun(EpdCall(e, Head(calls)), Tail(calls))

\* The controller as it is when the i-th of the last step's calls is issued.
EpdAt(i) == EpdRun(epdBefore, SubSeq(issued, 1, i - 1))

(***************************************************************************)
(* Names.  A String is the sequence of its characters.                     *)
(***************************************************************************)
GoodBmpName == <<"a", ".", "b", "m", "p">>
BadBmpName  == <<"x", ".", "b", "m", "p">>
PngName     == <<"p", ".", "p", "n", "g">>
GoneName    == <<"g", ".", "b", "m", "p">>
NoneName    == <<"<", "n", "o", "n", "e", ">">>
GeneratedQR == <<"g", "e", "n", "e", "r", "a", "t", "e", "d", " ", "Q", "R">>

\* snapshot()'s outfile.
SnapshotName ==
    <<"/", "g", "e", "n", "e", "r", "a", "t", "e", "d", "-", "q", "r", "-",
      "c", "o", "d", "e", ".", "b", "m", "p">>

FileNames == {GoodBmpName, BadBmpName, PngName, GoneName}

Files == FileNames \cup {SnapshotName}

endsWith(s, suffix) ==
    /\ Len(s) >= Len(suffix)
    /\ SubSeq(s, Len(s) - Len(suffix) + 1, Len(s)) = suffix

IsPngName(name) == endsWith(name, <<".", "p", "n", "g">>)

IsBmpName(name) ==
    \/ endsWith(name, <<".", "b", "m", "p">>)
    \/ endsWith(name, <<".", "B", "M", "P">>)

\* The files the requests of the full specification work with.
Stored ==
    [n \in Files |->
        CASE n = GoodBmpName -> BmpFile(BmpSignature, 1, 24, 0, 2, 2, Pattern("p10"))
          [] n = BadBmpName  -> BmpFile(0, 1, 24, 0, 2, 2, Pattern("p10"))
          [] n = PngName     -> PngFile(TRUE, 2, 2, Pattern("p00"))
          [] n = GoneName    -> NoFile
          [] n = SnapshotName -> NoFile]

(***************************************************************************)
(* Execution contexts: setup()/loop(), the web server's handlers, and the  *)
(* timers' callbacks.  A context runs one operation at a time; a draw      *)
(* gives the other context the chance to run at yield() and WaitUntilIdle. *)
(***************************************************************************)
Contexts == {"main", "req", "tmr"}

NoCode == [size |-> 0, pat |-> "corner"]

CtxIdle ==
    [pc |-> "idle", name |-> <<>>, file |-> NoFile, d |-> bmpIdle, code |-> NoCode,
     x |-> 0, blockSize |-> 0, display_x |-> 0, display_y |-> 0]

InFlight(c) == ctx[c].pc # "idle"

Other(c) == IF c = "req" THEN "tmr" ELSE "req"

Serving == ctx["main"].pc = "loop"

Step(c, op, name, codec, start, done, good) ==
    [ctx |-> c, op |-> op, name |-> name, codec |-> codec,
     start |-> start, done |-> done, good |-> good]

\* What a step leaves for the monitors: the controller calls it issued and
\* the pending callbacks its once() call detached.
Monitor(calls, det, sizes) ==
    /\ issued' = calls
    /\ epdBefore' = epd
    /\ epd' = EpdRun(epd, calls)
    /\ detached' = det
    /\ resized' = sizes

\* A step that calls neither once() nor SetWidth/SetHeight.
Issue(calls) == Monitor(calls, <<>>, <<>>)

FullPaint == [width |-> image_width, height |-> image_height]

\* The bits of unsigned char image[image_width * image_height / 8].
Capacity == 8 * ((image_width * image_height) \div 8)

(***************************************************************************)
(* Paint's dimensions.  A resize is the SetWidth/SetHeight calls of one    *)
(* place of the code, in the order the code makes them.                    *)
(***************************************************************************)
SetWidth(p, w) == [p EXCEPT !.width = w]
SetHeight(p, h) == [p EXCEPT !.height = h]

\* Paint's dimensions after each call of a resize that starts from p.
RECURSIVE Sizes(_, _)
Sizes(p, calls) ==
    IF calls = <<>> THEN <<>>
    ELSE LET c == Head(calls)
             q == IF c[1] = "SetWidth" THEN SetWidth(p, c[2]) ELSE SetHeight(p, c[2])
         IN  <<q>> \o Sizes(q, Tail(calls))

\* A step that issues the controller calls and resizes Paint: Paint ends as
\* the last SetWidth/SetHeight left it.
Resized(calls, resize) ==
    /\ Monitor(calls, <<>>, Sizes(paint, resize))
    /\ paint' = Sizes(paint, resize)[Len(resize)]

\* display_status_message(item, args...)
StatusResize == <<<<"SetWidth", image_width>>, <<"SetHeight", image_height>>>>

\* display_image, either branch
ImageResize == <<<<"SetWidth", image_width>>, <<"SetHeight", image_height>>>>

\* display_qr_code
QrResize == <<<<"SetHeight", epd_width>>, <<"SetWidth", epd_height>>>>

(***************************************************************************)
(* Status text and the QR frame of the start-up screens.                   *)
(***************************************************************************)
\* display_status_message(offset, font, item, args...): n lines from the top,
\* the first in Font24, the rest in Font16.  Of each line's glyphs the model
\* keeps the top-left pixel.
StatusLines(n) ==
    {<<0, IF i = 0 THEN 0 ELSE Font24Height + (i - 1) * Font16Height, BLACK>> :
        i \in 0 .. (n - 1)}

\* display_status_message(item, args...): the full-screen message.
StatusScreen(img, n) ==
    DrawAll(PaintClear(img, image_width, image_height, WHITE),
            image_width, image_height, StatusLines(n))

FrameQrVersion == 5
FrameQrBlock == 3

\* DrawFrameQRTextCode: the paint it leaves and the framebuffer it draws.
\* A frame code drawn with blocks twice the size.
FrameQrSideMutant == QrSize(FrameQrVersion) * (2 * FrameQrBlock)

FrameQrSide == QrSize(FrameQrVersion) * FrameQrBlock

FrameQrResize == <<<<"SetHeight", FrameQrSide>>, <<"SetWidth", FrameQrSide>>>>

\* display_initialize_message
InitializeResize ==
    <<<<"SetWidth", epd_width>>,
      <<"SetHeight", Min(epd_height, epd_height - Font24Height - 3 * Font16Height)>>>>

\* setup(), the ready screen
ReadyResize ==
    <<<<"SetWidth", epd_width>>, <<"SetHeight", Font24Height + 2 * Font16Height>>>>

FrameQrWrites ==
    LET code == [size |-> QrSize(FrameQrVersion), pat |-> "corner"]
    IN  UNION {QrColumn(code, x, FrameQrBlock, 0, 0) : x \in 0 .. (code.size - 1)}

FrameQrImage(img) ==
    DrawAll(PaintClear(img, FrameQrSide, FrameQrSide, WHITE),
            FrameQrSide, FrameQrSide, FrameQrWrites)

(***************************************************************************)
(* Initial state: the globals as constructed, before setup().              *)
(***************************************************************************)
NoStep == Step("main", "none", <<>>, "none", FALSE, TRUE, FALSE)

Globals ==
    /\ image = 0 .. (image_width * image_height - 1)
    /\ paint = FullPaint
    /\ currentImage = NoneName
    /\ epdState = "Powered"
    /\ epd = EpdPowered
    /\ epdBefore = EpdPowered
    /\ issued = <<>>
    /\ drawn = {}
    /\ detached = <<>>
    /\ resized = <<>>
    /\ ticker = <<>>
    /\ loadTicker = <<>>
    /\ loadFileName = <<>>
    /\ qr = [version |-> 0, scale |-> FALSE, ok |-> FALSE, pat |-> "corner"]
    /\ last = NoStep
    /\ snap = NoFile

Init ==
    /\ Globals
    /\ fs = Stored
    /\ ctx = [c \in Contexts |-> IF c = "main" THEN [CtxIdle EXCEPT !.pc = "setup"]
                                 ELSE CtxIdle]
    /\ nreq = 0

(***************************************************************************)
(* setup().                                                                *)
(***************************************************************************)
\* Lines 556-558: init, clear, "Initializing".
\* A status message that loads the frame memory and returns.
StatusMessageCallsMutant == <<"WaitUntilIdle", "SetFrameMemory">>

\* display_status_message(item, args...): its controller calls.
StatusMessageCalls == <<"WaitUntilIdle", "SetFrameMemory", "DisplayFrame">>

Setup ==
    /\ ctx["main"].pc = "setup"
    /\ Resized(<<"LDirInit", "Clear">> \o StatusMessageCalls, StatusResize)
    /\ image' = StatusScreen(image, 1)
    /\ drawn' = StatusLines(1)
    /\ ctx' = [ctx EXCEPT !["main"].pc = "autoConnect"]
    /\ last' = Step("main", "setup", <<>>, "none", TRUE, TRUE, TRUE)
    /\ UNCHANGED <<fs, currentImage, epdState, ticker, loadTicker, loadFileName,
                   qr, snap, nreq>>

\* display_initialize_message, the WiFi manager's access-point callback.
InitializeMessage(qrOk) ==
    LET ph == Min(epd_height, epd_height - Font24Height - 3 * Font16Height)
        text == DrawAll(PaintClear(image, epd_width, ph, WHITE), epd_width, ph,
                        StatusLines(4))
    IN  IF qrOk
        THEN /\ Resized(<<"LDirInit", "DisplayPartBaseWhiteImage", "SetFrameMemory",
                          "SetFrameMemory", "DisplayFrame">>,
                        InitializeResize \o FrameQrResize)
             /\ image' = FrameQrImage(text)
             /\ drawn' = StatusLines(4) \cup FrameQrWrites
        ELSE /\ Resized(<<"LDirInit", "DisplayPartBaseWhiteImage", "SetFrameMemory">>
                            \o StatusMessageCalls,
                        InitializeResize \o StatusResize)
             /\ image' = StatusScreen(text, 8)
             /\ drawn' = StatusLines(8)

\* wifiManager.autoConnect: it connects, after the access-point callback when
\* no network is configured.
AutoConnect ==
    /\ ctx["main"].pc = "autoConnect"
    /\ \/ \E qrOk \in BOOLEAN :
            /\ InitializeMessage(qrOk)
            /\ last' = Step("main", "display_initialize_message", <<>>, "none",
                            TRUE, TRUE, qrOk)
       \/ /\ Issue(<<>>)
          /\ drawn' = {}
          /\ last' = Step("main", "autoConnect", <<>>, "none", TRUE, TRUE, TRUE)
          /\ UNCHANGED <<paint, image>>
    /\ ctx' = [ctx EXCEPT !["main"].pc = "ready"]
    /\ UNCHANGED <<fs, currentImage, epdState, ticker, loadTicker, loadFileName,
                   qr, snap, nreq>>

\* Lines 705-720: server.begin() and the "Ready" screen.
Ready ==
    /\ ctx["main"].pc = "ready"
    /\ LET ph == Font24Height + 2 * Font16Height
           text == DrawAll(PaintClear(image, epd_width, ph, WHITE), epd_width, ph,
                           StatusLines(3))
       IN  \E qrOk \in BOOLEAN :
             /\ IF qrOk
                THEN /\ Resized(<<"LDirInit", "DisplayPartBaseWhiteImage",
                                  "SetFrameMemory", "SetFrameMemory", "DisplayFrame">>,
                                ReadyResize \o FrameQrResize)
                     /\ image' = FrameQrImage(text)
                     /\ drawn' = StatusLines(3) \cup FrameQrWrites
                ELSE /\ Resized(<<"LDirInit", "DisplayPartBaseWhiteImage",
                                  "SetFrameMemory", "DisplayFrame">>,
                                ReadyResize)
                     /\ image' = text
                     /\ drawn' = StatusLines(3)
             /\ last' = Step("main", "ready", <<>>, "none", TRUE, TRUE, qrOk)
    /\ ctx' = [ctx EXCEPT !["main"].pc = "loop"]
    /\ UNCHANGED <<fs, currentImage, epdState, ticker, loadTicker, loadFileName,
                   qr, snap, nreq>>

(***************************************************************************)
(* display_image.                                                          *)
(***************************************************************************)
\* The name display_image reads through its `filename` pointer: the request's
\* own String, or the static loadFileName the upload timer points at.
FileNameOf(c) == IF c = "tmr" THEN loadFileName ELSE ctx[c].name

\* The bitmap branch after bmpDraw has run to d1: either bmpDraw is at a
\* pushColours call, which draws and yields, or it has returned and the
\* branch ends with DisplayPart and currentImage = *filename.
BmpBranch(c, name, f, d1, img, pw, ph, calls, cur, start) ==
    IF d1.pc = "done"
    THEN /\ Monitor(calls \o <<"DisplayPart">>, <<>>,
                    IF start THEN Sizes(paint, ImageResize) ELSE <<>>)
         /\ image' = img
         /\ drawn' = {}
         /\ currentImage' = name
         /\ ctx' = [ctx EXCEPT ![c] = CtxIdle]
         /\ last' = Step(c, "display_image", name, "bmp", start, TRUE, d1.good)
    ELSE /\ Monitor(calls, <<>>, IF start THEN Sizes(paint, ImageResize) ELSE <<>>)
         /\ image' = DrawAll(img, pw, ph, bmpPushWrites(d1))
         /\ drawn' = bmpPushWrites(d1)
         /\ currentImage' = cur
         /\ ctx' = [ctx EXCEPT ![c] = [CtxIdle EXCEPT !.pc = "bmp", !.name = name,
                                                      !.file = f,
                                                      !.d = bmpAfterPush(d1)]]
         /\ last' = Step(c, "display_image", name, "bmp", start, FALSE, d1.good)

\* display_image(filename) from its entry to its first yield, or to its end.
\* cur and st are currentImage and epdState as the caller left them.
display_image(c, name, cur, st) ==
    LET f == fs[name]
    IN  IF IsPngName(name)
        THEN IF f.kind = "png" /\ f.ok
             THEN /\ epdState' = "active"
                  /\ currentImage' = cur
                  /\ Resized(<<"LDirInit", "Clear", "WaitUntilIdle">>, ImageResize)
                  /\ drawn' = pngDecode(f, image_width)
                  /\ image' = DrawAll(PaintClear(image, image_width, image_height, WHITE),
                                      image_width, image_height,
                                      pngDecode(f, image_width))
                  /\ ctx' = [ctx EXCEPT ![c] = [CtxIdle EXCEPT !.pc = "png_wait",
                                                               !.name = name,
                                                               !.file = f]]
                  /\ last' = Step(c, "display_image", name, "png", TRUE, FALSE, TRUE)
             ELSE /\ epdState' = st
                  /\ currentImage' = cur
                  /\ Issue(<<>>)
                  /\ drawn' = {}
                  /\ ctx' = [ctx EXCEPT ![c] = CtxIdle]
                  /\ last' = Step(c, "display_image", name, "png", TRUE, TRUE, FALSE)
                  /\ UNCHANGED <<paint, image>>
        ELSE IF IsBmpName(name)
        THEN /\ epdState' = "active"
             /\ paint' = Sizes(paint, ImageResize)[Len(ImageResize)]
             /\ BmpBranch(c, name, f,
                          bmpRun(bmpStart(f, image_width, image_height, 0, 0), f),
                          PaintClear(image, image_width, image_height, WHITE),
                          image_width, image_height,
                          <<"LDirInit", "Clear">>, cur, TRUE)
        ELSE /\ epdState' = st
             /\ currentImage' = cur
             /\ Issue(<<>>)
             /\ drawn' = {}
             /\ ctx' = [ctx EXCEPT ![c] = CtxIdle]
             /\ last' = Step(c, "display_image", name, "none", TRUE, TRUE, FALSE)
             /\ UNCHANGED <<paint, image>>

\* bmpDraw resumes after the yield() that ended a pushColours call.
BmpResume(c) ==
    /\ ctx[c].pc = "bmp"
    /\ \E d1 \in {bmpRun(ctx[c].d, ctx[c].file)} :
           BmpBranch(c, FileNameOf(c), ctx[c].file, d1,
                     image, paint.width, paint.height, <<>>, currentImage, FALSE)
    /\ UNCHANGED <<fs, paint, epdState, ticker, loadTicker, loadFileName, qr, snap, nreq>>

\* The PNG branch once its WaitUntilIdle has returned.
PngFinish(c) ==
    /\ ctx[c].pc = "png_wait"
    /\ Issue(<<"DisplayPart">>)
    /\ drawn' = {}
    /\ ctx' = [ctx EXCEPT ![c] = CtxIdle]
    /\ last' = Step(c, "display_image", FileNameOf(c), "png", FALSE, TRUE, TRUE)
    /\ UNCHANGED <<fs, image, paint, currentImage, epdState, ticker, loadTicker,
                   loadFileName, qr, snap, nreq>>

(***************************************************************************)
(* display_qr_code.                                                        *)
(***************************************************************************)
\* Lines 1110-1117: generate the code from the globals, then yield().
QrGenerate(c) ==
    /\ Issue(<<>>)
    /\ drawn' = {}
    /\ IF qr.ok
       THEN /\ ctx' = [ctx EXCEPT ![c] = [CtxIdle EXCEPT !.pc = "qr_generated",
                                             !.code = [size |-> QrSize(qr.version),
                                                       pat |-> qr.pat]]]
            /\ last' = Step(c, "display_qr_code", <<>>, "qr", TRUE, FALSE, TRUE)
       ELSE /\ ctx' = [ctx EXCEPT ![c] = CtxIdle]
            /\ last' = Step(c, "display_qr_code", <<>>, "qr", TRUE, TRUE, FALSE)
    /\ UNCHANGED <<image, paint, currentImage, epdState, snap>>

\* A block one pixel larger than the panel's side allows.
QrBlockSizeMutant(scale, size) ==
    IF scale THEN (Min(epd_height, epd_width) \div size) + 1 ELSE 1

QrBlockSize(scale, size) ==
    IF scale THEN Min(epd_height, epd_width) \div size ELSE 1

\* Lines 1122-1148 up to the first column's yield().
QrBegin(c) ==
    /\ ctx[c].pc = "qr_generated"
    /\ LET code == ctx[c].code
           blockSize == QrBlockSize(qr.scale, code.size)
           pw == epd_height
           ph == epd_width
           display_x == (pw - code.size * blockSize) \div 2
           display_y == (ph - code.size * blockSize) \div 2
           col0 == QrColumn(code, 0, blockSize, display_x, display_y)
       IN  IF code.size > epd_height \/ code.size > epd_width
           THEN /\ Issue(<<>>)
                /\ drawn' = {}
                /\ ctx' = [ctx EXCEPT ![c] = CtxIdle]
                /\ last' = Step(c, "display_qr_code", <<>>, "qr", FALSE, TRUE, FALSE)
                /\ UNCHANGED <<image, paint>>
           ELSE /\ Resized(<<"HDirInit", "Clear">>, QrResize)
                /\ image' = DrawAll(PaintClear(image, pw, ph, WHITE), pw, ph, col0)
                /\ drawn' = col0
                /\ ctx' = [ctx EXCEPT ![c].pc = "qr_columns", ![c].x = 1,
                                      ![c].blockSize = blockSize,
                                      ![c].display_x = display_x,
                                      ![c].display_y = display_y]
                /\ last' = Step(c, "display_qr_code", <<>>, "qr", FALSE, FALSE, TRUE)
    /\ UNCHANGED <<fs, currentImage, epdState, ticker, loadTicker, loadFileName,
                   qr, snap, nreq>>

\* The next column and its yield(); after the last column, WaitUntilIdle.
QrColumns(c) ==
    /\ ctx[c].pc = "qr_columns"
    /\ IF ctx[c].x < ctx[c].code.size
       THEN \E colx \in {QrColumn(ctx[c].code, ctx[c].x, ctx[c].blockSize,
                                    ctx[c].display_x, ctx[c].display_y)} :
                /\ Issue(<<>>)
                /\ image' = DrawAll(image, paint.width, paint.height, colx)
                /\ drawn' = colx
                /\ ctx' = [ctx EXCEPT ![c].x = @ + 1]
       ELSE /\ Issue(<<"WaitUntilIdle">>)
            /\ drawn' = {}
            /\ ctx' = [ctx EXCEPT ![c].pc = "qr_wait"]
            /\ UNCHANGED image
    /\ last' = Step(c, "display_qr_code", <<>>, "qr", FALSE, FALSE, TRUE)
    /\ UNCHANGED <<fs, paint, currentImage, epdState, ticker, loadTicker,
                   loadFileName, qr, snap, nreq>>

\* Lines 1152-1156, once WaitUntilIdle has returned.
QrFinish(c) ==
    /\ ctx[c].pc = "qr_wait"
    /\ Issue(<<"DisplayPart">>)
    /\ drawn' = {}
    /\ snap' = snapshot(image, paint.width, paint.height)
    /\ fs' = [fs EXCEPT ![SnapshotName] = snapshot(image, paint.width, paint.height)]
    /\ epdState' = "showing generated QR"
    /\ currentImage' = GeneratedQR
    /\ ctx' = [ctx EXCEPT ![c] = CtxIdle]
    /\ last' = Step(c, "display_qr_code", <<>>, "qr", FALSE, TRUE, TRUE)
    /\ UNCHANGED <<image, paint, ticker, loadTicker, loadFileName, qr, nreq>>

(***************************************************************************)
(* Timers.  A Ticker holds its pending callbacks; once() detaches what is  *)
(* pending and attaches the new callback.                                  *)
(***************************************************************************)
\* A once() that attaches without detaching what is pending.
onceMutant(t, callback) == Append(t, callback)

once(t, callback) == <<callback>>

\* The /qr handler's ticker fires: display_qr_code starts.
TickerFire ==
    /\ Serving
    /\ ~InFlight("tmr")
    /\ ticker # <<>>
    /\ ticker' = Tail(ticker)
    /\ QrGenerate("tmr")
    /\ UNCHANGED <<fs, loadTicker, loadFileName, qr, nreq>>

\* handleUpload's ticker fires: display_image(&loadFileName) starts.
LoadTickerFire ==
    /\ Serving
    /\ ~InFlight("tmr")
    /\ loadTicker # <<>>
    /\ loadTicker' = Tail(loadTicker)
    /\ display_image("tmr", loadFileName, currentImage, epdState)
    /\ UNCHANGED <<fs, ticker, loadFileName, qr, snap, nreq>>

(***************************************************************************)
(* Request handlers.                                                       *)
(***************************************************************************)
QrVersions == {1}
QrTexts == {[ok |-> TRUE, pat |-> "corner"], [ok |-> FALSE, pat |-> "corner"]}

Request ==
    /\ Serving
    /\ ~InFlight("req")
    /\ nreq < MaxRequests
    /\ nreq' = nreq + 1

\* GET /display?file=name
Display(name) ==
    /\ Request
    /\ IF fs[name] # NoFile
       THEN display_image("req", name, name, "displaying image")
       ELSE /\ Issue(<<>>)
            /\ drawn' = {}
            /\ last' = Step("req", "display", name, "none", TRUE, TRUE, FALSE)
            /\ UNCHANGED <<image, paint, currentImage, epdState, ctx>>
    /\ UNCHANGED <<fs, ticker, loadTicker, loadFileName, qr, snap>>

DisplayRequest == \E name \in FileNames : Display(name)

\* GET /sleep
SleepRequest ==
    /\ Request
    /\ Issue(<<"Sleep">>)
    /\ epdState' = "sleeping"
    /\ drawn' = {}
    /\ last' = Step("req", "sleep", <<>>, "none", TRUE, TRUE, TRUE)
    /\ UNCHANGED <<fs, image, paint, currentImage, ticker, loadTicker, loadFileName,
                   qr, ctx, snap>>

\* GET /clear
ClearRequest ==
    /\ Request
    /\ currentImage' = NoneName
    /\ epdState' = "cleared"
    /\ Issue(<<"HDirInit", "Clear">>)
    /\ drawn' = {}
    /\ last' = Step("req", "clear", <<>>, "none", TRUE, TRUE, TRUE)
    /\ UNCHANGED <<fs, image, paint, ticker, loadTicker, loadFileName, qr, ctx, snap>>

\* POST /qr with version, ecc and text (and scale, or not)
QrRequest ==
    \E version \in QrVersions, scale \in BOOLEAN, text \in QrTexts :
        /\ Request
        /\ qr' = [version |-> version, scale |-> scale, ok |-> text.ok, pat |-> text.pat]
        /\ ticker' = once(ticker, "display_qr_code")
        /\ Monitor(<<>>, ticker, <<>>)
        /\ drawn' = {}
        /\ last' = Step("req", "qr", <<>>, "none", TRUE, TRUE, TRUE)
        /\ UNCHANGED <<fs, image, paint, currentImage, epdState, loadTicker,
                       loadFileName, ctx, snap>>

\* handleUpload with final set: the file is stored and its display scheduled.
Upload ==
    \E name \in {n \in FileNames : Stored[n] # NoFile} :
        /\ Request
        /\ fs' = [fs EXCEPT ![name] = Stored[name]]
        /\ currentImage' = name
        /\ epdState' = "displaying image"
        /\ loadFileName' = name
        /\ loadTicker' = once(loadTicker, "display_image")
        /\ Monitor(<<>>, loadTicker, <<>>)
        /\ drawn' = {}
        /\ last' = Step("req", "upload", name, "none", TRUE, TRUE, TRUE)
        /\ UNCHANGED <<image, paint, ticker, qr, ctx, snap>>

Draws == {"req", "tmr"}

Next ==
    \/ Setup
    \/ AutoConnect
    \/ Ready
    \/ DisplayRequest
    \/ SleepRequest
    \/ ClearRequest
    \/ QrRequest
    \/ Upload
    \/ TickerFire
    \/ LoadTickerFire
    \/ \E c \in Draws : BmpResume(c)
    \/ \E c \in Draws : PngFinish(c)
    \/ \E c \in Draws : QrBegin(c)
    \/ \E c \in Draws : QrColumns(c)
    \/ \E c \in Draws : QrFinish(c)

Spec == Init /\ [][Next]_vars

\* A draw suspended in yield() is resumed, and WaitUntilIdle returns: the
\* panel's busy signal eventually clears.
Resumed ==
    \A c \in Draws :
        /\ WF_vars(BmpResume(c))
        /\ WF_vars(PngFinish(c))
        /\ WF_vars(QrBegin(c))
        /\ WF_vars(QrColumns(c))
        /\ WF_vars(QrFinish(c))

LiveSpec == Spec /\ Resumed

(***************************************************************************)
(* The codecs on their own: one stored file, of any header and picture of  *)
(* the bounded sets below, is displayed by the upload timer and the        *)
(* framebuffer is then snapshot.                                           *)
(***************************************************************************)
Depths == {24, 8, 280, 65304}
Patterns == {Pattern(p) : p \in {"white", "black", "p00", "p10", "dim"}}

BmpDims ==
    {<<w, h>> : w \in (0 .. MaxSide) \cup {BUFFPIXEL - 1, BUFFPIXEL + 1},
                h \in (-MaxSide) .. MaxSide}
        \cup {<<image_width + 1, 1>>, <<1, image_height + 1>>}

PngDims ==
    {<<w, h>> : w \in 0 .. MaxSide, h \in 0 .. MaxSide}
        \cup {<<image_width + 1, 1>>, <<1, image_height + 1>>}
        \cup {<<PngLineCapacity, 1>>, <<PngLineCapacity + 1, 1>>}

BmpFiles ==
    {BmpFile(sig, planes, depth, comp, dim[1], dim[2], pix) :
        sig \in {BmpSignature, 20617}, planes \in {0, 1}, depth \in Depths,
        comp \in {0, 1}, dim \in BmpDims, pix \in Patterns}

PngFiles == {PngFile(ok, dim[1], dim[2], pix) : ok \in BOOLEAN, dim \in PngDims, pix \in Patterns}

ReadyCalls ==
    <<"LDirInit", "DisplayPartBaseWhiteImage", "SetFrameMemory", "SetFrameMemory",
      "DisplayFrame">>

\* The state after setup() and the upload of one file.
CodecInit ==
    /\ \E name \in {GoodBmpName, PngName} :
        \E f \in (IF IsPngName(name) THEN PngFiles ELSE BmpFiles) \cup {NoFile} :
            /\ fs = [n \in Files |-> IF n = name THEN f ELSE NoFile]
            /\ loadFileName = name
            /\ currentImage = name
    /\ image = FrameQrImage({})
    /\ paint = [width |-> FrameQrSide, height |-> FrameQrSide]
    /\ epdState = "displaying image"
    /\ epd = EpdRun(EpdPowered, ReadyCalls)
    /\ epdBefore = epd
    /\ issued = <<>>
    /\ drawn = {}
    /\ detached = <<>>
    /\ resized = <<>>
    /\ ticker = <<>>
    /\ loadTicker = <<"display_image">>
    /\ qr = [version |-> 0, scale |-> FALSE, ok |-> FALSE, pat |-> "corner"]
    /\ last = Step("req", "upload", loadFileName, "none", TRUE, TRUE, TRUE)
    /\ snap = NoFile
    /\ ctx = [c \in Contexts |-> IF c = "main" THEN [CtxIdle EXCEPT !.pc = "loop"]
                                 ELSE CtxIdle]
    /\ nreq = MaxRequests

\* snapshot(paint) applied to the framebuffer a finished display_image left.
SnapshotDecoded ==
    /\ last.op = "display_image"
    /\ last.done
    /\ snap' = snapshot(image, paint.width, paint.height)
    /\ Issue(<<>>)
    /\ drawn' = {}
    /\ last' = Step(last.ctx, "snapshot", last.name, last.codec, FALSE, TRUE, last.good)
    /\ UNCHANGED <<fs, image, paint, currentImage, epdState, ticker, loadTicker,
                   loadFileName, qr, ctx, nreq>>

\* PNGDraw wrote past the end of usPixels, which is undefined: the decode
\* either goes on as if it had not (PngFinish), or the smashed stack ends in
\* a panic and the firmware starts again with the file system as it is.
PngPanic(c) ==
    /\ ctx[c].pc = "png_wait"
    /\ PngOverflows(ctx[c].file)
    /\ image' = 0 .. (image_width * image_height - 1)
    /\ paint' = FullPaint
    /\ currentImage' = NoneName
    /\ epdState' = "Powered"
    /\ epd' = EpdPowered
    /\ epdBefore' = EpdPowered
    /\ issued' = <<>>
    /\ drawn' = {}
    /\ detached' = <<>>
    /\ resized' = <<>>
    /\ ticker' = <<>>
    /\ loadTicker' = <<>>
    /\ loadFileName' = <<>>
    /\ qr' = [version |-> 0, scale |-> FALSE, ok |-> FALSE, pat |-> "corner"]
    /\ last' = NoStep
    /\ snap' = NoFile
    /\ ctx' = [k \in Contexts |-> IF k = "main" THEN [CtxIdle EXCEPT !.pc = "setup"]
                                  ELSE CtxIdle]
    /\ UNCHANGED <<fs, nreq>>

CodecNext ==
    \/ LoadTickerFire
    \/ BmpResume("tmr")
    \/ PngFinish("tmr")
    \/ PngPanic("tmr")
    \/ SnapshotDecoded

CodecSpec == CodecInit /\ [][CodecNext]_vars

(***************************************************************************)
(* The snapshot round trip: POST /qr has scheduled a QR display; its timer *)
(* draws the code and snapshots the framebuffer, and GET /display then     *)
(* decodes the snapshot file into the cleared framebuffer.                 *)
(***************************************************************************)
RoundTripTexts == {"corner", "edge"}

RoundTripInit ==
    /\ \E scale \in BOOLEAN, pat \in RoundTripTexts :
            qr = [version |-> 1, scale |-> scale, ok |-> TRUE, pat |-> pat]
    /\ fs = Stored
    /\ image = FrameQrImage({})
    /\ paint = [width |-> FrameQrSide, height |-> FrameQrSide]
    /\ currentImage = NoneName
    /\ epdState = "Powered"
    /\ epd = EpdRun(EpdPowered, ReadyCalls)
    /\ epdBefore = epd
    /\ issued = <<>>
    /\ drawn = {}
    /\ detached = <<>>
    /\ resized = <<>>
    /\ ticker = <<"display_qr_code">>
    /\ loadTicker = <<>>
    /\ loadFileName = <<>>
    /\ last = Step("req", "qr", <<>>, "none", TRUE, TRUE, TRUE)
    /\ snap = NoFile
    /\ ctx = [c \in Contexts |-> IF c = "main" THEN [CtxIdle EXCEPT !.pc = "loop"]
                                 ELSE CtxIdle]
    /\ nreq = MaxRequests - 1

RoundTripNext ==
    \/ TickerFire
    \/ QrBegin("tmr")
    \/ QrColumns("tmr")
    \/ QrFinish("tmr")
    \/ Display(SnapshotName)
    \/ BmpResume("req")

RoundTripSpec == RoundTripInit /\ [][RoundTripNext]_vars

(***************************************************************************)
(* The snapshot encoder on its own: snapshot(paint) applied to a           *)
(* framebuffer of any of the bounded dimensions and contents below.        *)
(***************************************************************************)
FrameDims == {<<w, h>> : w \in 1 .. MaxWidth, h \in 1 .. MaxSide}

FrameContents(w, h) ==
    {{}, 0 .. (w * h - 1), {0}, {w * h - 1}, {PaintBit(w, w - 1, 0)}}

EncoderInit ==
    /\ \E dim \in FrameDims :
            /\ paint = [width |-> dim[1], height |-> dim[2]]
            /\ image \in FrameContents(dim[1], dim[2])
    /\ fs = Stored
    /\ currentImage = NoneName
    /\ epdState = "Powered"
    /\ epd = EpdRun(EpdPowered, ReadyCalls)
    /\ epdBefore = epd
    /\ issued = <<>>
    /\ drawn = {}
    /\ detached = <<>>
    /\ resized = <<>>
    /\ ticker = <<>>
    /\ loadTicker = <<>>
    /\ loadFileName = <<>>
    /\ qr = [version |-> 0, scale |-> FALSE, ok |-> FALSE, pat |-> "corner"]
    /\ last = Step("main", "paint", <<>>, "none", TRUE, TRUE, TRUE)
    /\ snap = NoFile
    /\ ctx = [c \in Contexts |-> IF c = "main" THEN [CtxIdle EXCEPT !.pc = "loop"]
                                 ELSE CtxIdle]
    /\ nreq = MaxRequests

\* snapshot(paint)
SnapshotPaint ==
    /\ last.op = "paint"
    /\ snap' = snapshot(image, paint.width, paint.height)
    /\ fs' = [fs EXCEPT ![SnapshotName] = snapshot(image, paint.width, paint.height)]
    /\ Issue(<<>>)
    /\ drawn' = {}
    /\ last' = Step("main", "snapshot", SnapshotName, "none", FALSE, TRUE, TRUE)
    /\ UNCHANGED <<image, paint, currentImage, epdState, ticker, loadTicker,
                   loadFileName, qr, ctx, nreq>>

EncoderNext == SnapshotPaint

EncoderSpec == EncoderInit /\ [][EncoderNext]_vars

(***************************************************************************)
(* Codec selection: one file, a bitmap or a PNG, uploaded under a name of  *)
(* any of the suffixes below and displayed by the upload timer.            *)
(***************************************************************************)
BmpSuffixes ==
    {<<".", b, m, p>> : b \in {"b", "B"}, m \in {"m", "M"}, p \in {"p", "P"}}

PngSuffixes ==
    {<<".", p, n, g>> : p \in {"p", "P"}, n \in {"n", "N"}, g \in {"g", "G"}}

OtherSuffixes == {<<".", "t", "x", "t">>, <<"b", "m", "p">>, <<"p", "n", "g">>}

SuffixNames == {<<"a">> \o x : x \in BmpSuffixes \cup PngSuffixes \cup OtherSuffixes}

SuffixFiles ==
    {BmpFile(BmpSignature, 1, 24, 0, 1, n, Pattern("black")) : n \in 1 .. MaxSide}
        \cup {PngFile(TRUE, 1, n, Pattern("white")) : n \in 1 .. MaxSide}

SuffixInit ==
    /\ \E name \in SuffixNames, f \in SuffixFiles :
            /\ fs = [n \in SuffixNames |-> IF n = name THEN f ELSE NoFile]
            /\ loadFileName = name
            /\ currentImage = name
    /\ image = FrameQrImage({})
    /\ paint = [width |-> FrameQrSide, height |-> FrameQrSide]
    /\ epdState = "displaying image"
    /\ epd = EpdRun(EpdPowered, ReadyCalls)
    /\ epdBefore = epd
    /\ issued = <<>>
    /\ drawn = {}
    /\ detached = <<>>
    /\ resized = <<>>
    /\ ticker = <<>>
    /\ loadTicker = <<"display_image">>
    /\ qr = [version |-> 0, scale |-> FALSE, ok |-> FALSE, pat |-> "corner"]
    /\ last = Step("req", "upload", loadFileName, "none", TRUE, TRUE, TRUE)
    /\ snap = NoFile
    /\ ctx = [c \in Contexts |-> IF c = "main" THEN [CtxIdle EXCEPT !.pc = "loop"]
                                 ELSE CtxIdle]
    /\ nreq = MaxRequests

SuffixNext ==
    \/ LoadTickerFire
    \/ BmpResume("tmr")
    \/ PngFinish("tmr")

SuffixSpec == SuffixInit /\ [][SuffixNext]_vars

(***************************************************************************)
(* The pixel conversion: an accepted one-row bitmap whose pixels all have  *)
(* the colour <<R, G, B>> is uploaded and displayed by the upload timer.   *)
(***************************************************************************)
ByteValues == {0, 1, 127, 128, 255}

Uniform(rgb) == [pat |-> "rgb", black |-> {}, rgb |-> rgb]

PixelFiles ==
    {BmpFile(BmpSignature, 1, 24, 0, w, 1, Uniform(<<r, g, b>>)) :
        w \in 1 .. MaxSide, r \in ByteValues, g \in ByteValues, b \in ByteValues}

PixelInit ==
    /\ \E f \in PixelFiles :
            fs = [n \in Files |-> IF n = GoodBmpName THEN f ELSE NoFile]
    /\ loadFileName = GoodBmpName
    /\ currentImage = GoodBmpName
    /\ image = FrameQrImage({})
    /\ paint = [width |-> FrameQrSide, height |-> FrameQrSide]
    /\ epdState = "displaying image"
    /\ epd = EpdRun(EpdPowered, ReadyCalls)
    /\ epdBefore = epd
    /\ issued = <<>>
    /\ drawn = {}
    /\ detached = <<>>
    /\ resized = <<>>
    /\ ticker = <<>>
    /\ loadTicker = <<"display_image">>
    /\ qr = [version |-> 0, scale |-> FALSE, ok |-> FALSE, pat |-> "corner"]
    /\ last = Step("req", "upload", loadFileName, "none", TRUE, TRUE, TRUE)
    /\ snap = NoFile
    /\ ctx = [c \in Contexts |-> IF c = "main" THEN [CtxIdle EXCEPT !.pc = "loop"]
                                 ELSE CtxIdle]
    /\ nreq = MaxRequests

PixelNext ==
    \/ LoadTickerFire
    \/ BmpResume("tmr")

PixelSpec == PixelInit /\ [][PixelNext]_vars

(***************************************************************************)
(* bmpDraw one loop step at a time: display_image has cleared the          *)
(* framebuffer and called bmpDraw(filename, 0, 0) on an accepted bitmap;   *)
(* each step is one pushColours call or one other step of the loops.       *)
(***************************************************************************)
DecoderDims ==
    {<<w, h>> : w \in (0 .. MaxSide) \cup ((BUFFPIXEL - 1) .. (BUFFPIXEL + 1)),
                h \in (-MaxSide) .. MaxSide}
        \cup {<<2 * BUFFPIXEL, 2>>, <<2 * BUFFPIXEL, -2>>,
              <<image_width + 1, 1>>, <<1, image_height + 1>>}

DecoderFiles ==
    {BmpFile(BmpSignature, 1, 24, 0, dim[1], dim[2], Pattern("white")) : dim \in DecoderDims}

DecoderInit ==
    /\ \E f \in DecoderFiles :
            /\ fs = [n \in Files |-> IF n = GoodBmpName THEN f ELSE NoFile]
            /\ ctx = [c \in Contexts |->
                         CASE c = "main" -> [CtxIdle EXCEPT !.pc = "loop"]
                           [] c = "tmr"  -> [CtxIdle EXCEPT
                                                !.pc = "bmp", !.name = GoodBmpName,
                                                !.file = f,
                                                !.d = bmpStart(f, image_width,
                                                               image_height, 0, 0)]
                           [] OTHER      -> CtxIdle]
    /\ loadFileName = GoodBmpName
    /\ currentImage = GoodBmpName
    /\ image = {}
    /\ paint = FullPaint
    /\ epdState = "active"
    /\ epdBefore = EpdRun(EpdPowered, ReadyCalls)
    /\ issued = <<"LDirInit", "Clear">>
    /\ epd = EpdRun(epdBefore, issued)
    /\ drawn = {}
    /\ detached = <<>>
    /\ resized = Sizes([width |-> FrameQrSide, height |-> FrameQrSide], ImageResize)
    /\ ticker = <<>>
    /\ loadTicker = <<>>
    /\ qr = [version |-> 0, scale |-> FALSE, ok |-> FALSE, pat |-> "corner"]
    /\ last = Step("tmr", "display_image", GoodBmpName, "bmp", TRUE, FALSE, TRUE)
    /\ snap = NoFile
    /\ nreq = MaxRequests

\* The decoder's locals, and the file it reads.
Decoder == ctx["tmr"].d

\* One step of bmpDraw: the pushColours call it has come to, or one step of
\* its loops.
BmpLoopStep ==
    /\ ctx["tmr"].pc = "bmp"
    /\ Decoder.pc # "done"
    /\ IF bmpAtPush(Decoder)
       THEN /\ ctx' = [ctx EXCEPT !["tmr"].d = bmpAfterPush(Decoder)]
            /\ image' = DrawAll(image, paint.width, paint.height, bmpPushWrites(Decoder))
            /\ drawn' = bmpPushWrites(Decoder)
       ELSE /\ ctx' = [ctx EXCEPT !["tmr"].d = bmpAdvance(Decoder, ctx["tmr"].file)]
            /\ drawn' = {}
            /\ UNCHANGED image
    /\ Issue(<<>>)
    /\ last' = Step("tmr", "display_image", GoodBmpName, "bmp", FALSE, FALSE, TRUE)
    /\ UNCHANGED <<fs, paint, currentImage, epdState, ticker, loadTicker,
                   loadFileName, qr, snap, nreq>>

DecoderNext == BmpLoopStep

DecoderSpec == DecoderInit /\ [][DecoderNext]_vars

(***************************************************************************)
(* The QR rasteriser: POST /qr has set the version, the scale flag and the *)
(* text, and its timer draws the code with nothing else running.           *)
(***************************************************************************)
QrGridVersions == {1, 2, 3, 6, 7, 20, 40}

QrGridTexts == {"corner", "diag", "edge"}

QrGridInit ==
    /\ \E version \in QrGridVersions, scale \in BOOLEAN, pat \in QrGridTexts :
            qr = [version |-> version, scale |-> scale, ok |-> TRUE, pat |-> pat]
    /\ fs = Stored
    /\ image = FrameQrImage({})
    /\ paint = [width |-> FrameQrSide, height |-> FrameQrSide]
    /\ currentImage = NoneName
    /\ epdState = "Powered"
    /\ epd = EpdRun(EpdPowered, ReadyCalls)
    /\ epdBefore = epd
    /\ issued = <<>>
    /\ drawn = {}
    /\ detached = <<>>
    /\ resized = <<>>
    /\ ticker = <<"display_qr_code">>
    /\ loadTicker = <<>>
    /\ loadFileName = <<>>
    /\ last = Step("req", "qr", <<>>, "none", TRUE, TRUE, TRUE)
    /\ snap = NoFile
    /\ ctx = [c \in Contexts |-> IF c = "main" THEN [CtxIdle EXCEPT !.pc = "loop"]
                                 ELSE CtxIdle]
    /\ nreq = MaxRequests

QrGridNext ==
    \/ TickerFire
    \/ QrBegin("tmr")
    \/ QrColumns("tmr")
    \/ QrFinish("tmr")

QrGridSpec == QrGridInit /\ [][QrGridNext]_vars

(***************************************************************************)
(* The claims.  A claim about the controller is stated over the calls of   *)
(* the last step: `issued`, from the controller state `epdBefore`.         *)
(***************************************************************************)
IssuedAt == 1 .. Len(issued)

\* C1: a partial update (DisplayPart) is issued only if the base image
\* (DisplayPartBaseWhiteImage) has been written since the most recent init,
\* on every path that reaches DisplayPart.
BaseImageBeforeDisplayPart ==
    \A i \in IssuedAt : issued[i] = "DisplayPart" => EpdAt(i).base

\* C2: no SetFrameMemory and no DisplayPart is issued unless WaitUntilIdle was
\* called after the previous panel command and before it.
WaitIdleBeforeFrameOperation ==
    \A i \in IssuedAt :
        issued[i] \in {"SetFrameMemory", "DisplayPart"} => EpdAt(i).idle

\* C3: no frame operation reaches the panel while it is uninitialized or
\* sleeping: after Sleep an init is issued before the next frame operation.
NoFrameOperationUnlessInitialized ==
    \A i \in IssuedAt : issued[i] \in EpdFrameCalls => EpdAt(i).mode = "ready"

\* C4: a /display, /clear, /sleep or timer-triggered draw never starts while
\* a draw started before it, in the other context, has not yet finished.
DrawOperations == {"display_image", "display_qr_code", "clear", "sleep"}

OneDrawInFlight ==
    (last.start /\ last.op \in DrawOperations) => ~InFlight(Other(last.ctx))

\* C5, as stated: at any time at most one deferred display is outstanding,
\* whichever of /qr and the upload scheduled it.
AtMostOneDeferredDisplay == Len(ticker) + Len(loadTicker) <= 1

\* C5, as amended: each of the two timers holds at most one deferred display;
\* scheduling on a timer replaces what is pending on that same timer.
AtMostOneDeferredDisplayPerTicker ==
    /\ Len(ticker) <= 1
    /\ Len(loadTicker) <= 1
    /\ Len(detached) <= 1

\* C5's case: /qr scheduled a display while its earlier one was pending.
PendingDisplayReplaced ==
    /\ last.op = "qr"
    /\ detached = <<"display_qr_code">>
    /\ ticker = <<"display_qr_code">>

(***************************************************************************)
(* The claims about the codecs, over CodecSpec: the file on display is     *)
(* fs[last.name], the framebuffer is 200 x 200 and was cleared to WHITE    *)
(* when display_image began.                                               *)
(***************************************************************************)
Displayed == fs[last.name]

BmpStep == last.op = "display_image" /\ last.codec = "bmp"

\* C6: bmpDraw writes pixels only when the header has signature 'BM', plane
\* count 1, a 16-bit bits-per-pixel field equal to 24 and compression 0.
OnlyAcceptedHeadersDraw ==
    (BmpStep /\ drawn # {}) =>
        /\ Displayed.kind = "bmp"
        /\ Displayed.sig = BmpSignature
        /\ Displayed.planes = 1
        /\ Displayed.depth = 24
        /\ Displayed.comp = 0

\* C7: if the file cannot be opened or its signature is not 'BM', bmpDraw
\* writes no pixel, and the framebuffer cleared before the call is unchanged
\* when the call returns.
NoWriteOnOpenFailureOrBadSignature ==
    (BmpStep /\ (Displayed.kind # "bmp" \/ Displayed.sig # BmpSignature)) =>
        /\ last.done
        /\ drawn = {}
        /\ image = PaintClear(image, image_width, image_height, WHITE)
        /\ image = {}

\* C7's case: bmpDraw has returned from a file whose header is acceptable
\* but for its signature, called over the start-up screen's framebuffer.
BadSignatureReturned ==
    /\ BmpStep
    /\ last.done
    /\ Displayed.kind = "bmp"
    /\ Displayed.sig # BmpSignature
    /\ Displayed.planes = 1
    /\ Displayed.depth = 24
    /\ Displayed.comp = 0
    /\ Displayed.width > 0
    /\ Displayed.height > 0
    /\ Displayed.pix.pat = "black"
    /\ FrameQrImage({}) # {}

\* C8: when a decode aborts on a format error (bad signature, unsupported
\* depth or compression, zero-size image) the display_image call issues no
\* Clear, DisplayPart or DisplayFrame.
FormatError(f) ==
    \/ /\ f.kind = "bmp"
       /\ \/ f.sig # BmpSignature
          \/ f.depth # 24
          \/ f.comp # 0
          \/ f.width = 0
          \/ f.height = 0
    \/ /\ f.kind = "png"
       /\ ~f.ok

NoPanelUpdateOnFormatError ==
    (last.op = "display_image" /\ FormatError(Displayed)) =>
        \A i \in IssuedAt : issued[i] \notin {"Clear", "DisplayPart", "DisplayFrame"}

\* C9: when the source image is wider or taller than the framebuffer, no
\* pixel write is issued with x >= width or y >= height, and the framebuffer
\* outside the clipped region is unchanged (still WHITE).
Oversize(f) ==
    /\ f.kind \in {"bmp", "png"}
    /\ (f.width > image_width \/ Abs(f.height) > image_height)

ClippedWritesOnly ==
    (last.op = "display_image" /\ Oversize(Displayed)) =>
        LET w == Min(Displayed.width, paint.width)
            h == Min(Abs(Displayed.height), paint.height)
        IN  /\ \A d \in drawn : d[1] < paint.width /\ d[2] < paint.height
            /\ \A k \in image : (k % paint.width) < w /\ (k \div paint.width) < h

\* C10: for every accepted image no larger than the framebuffer, decoding and
\* then snapshotting yields a bitmap whose pixel (c, r) is black iff the
\* codec's threshold rule classifies source pixel (c, r) as BLACK.
Threshold(codec, rgb) ==
    IF codec = "bmp"
    THEN (IF bmpColour(rgb[1], rgb[2], rgb[3]) # 0 THEN WHITE ELSE BLACK)
    ELSE PngThreshold(Rgb565(rgb))

RoundTripThreshold ==
    (/\ last.op = "snapshot"
     /\ last.good
     /\ Displayed.width <= image_width
     /\ Abs(Displayed.height) <= image_height) =>
        \A c \in 0 .. (Displayed.width - 1), r \in 0 .. (Abs(Displayed.height) - 1) :
            (<<c, r>> \in snap.pix.black)
                <=> (Threshold(last.codec, SrcRgb(Displayed.pix, c, r)) = BLACK)

(***************************************************************************)
(* The claims about the snapshot encoder.                                  *)
(***************************************************************************)
\* The framebuffer display_qr_code draws for the code of the request.
QrFrame ==
    LET code == [size |-> QrSize(qr.version), pat |-> qr.pat]
        blockSize == QrBlockSize(qr.scale, code.size)
        display_x == (epd_height - code.size * blockSize) \div 2
        display_y == (epd_width - code.size * blockSize) \div 2
    IN  DrawAll({}, epd_height, epd_width,
                UNION {QrColumn(code, x, blockSize, display_x, display_y) :
                          x \in 0 .. (code.size - 1)})

SnapshotDisplayed ==
    /\ last.op = "display_image"
    /\ last.name = SnapshotName
    /\ last.done
    /\ last.good

\* C11: writing a framebuffer with snapshot and decoding the file with
\* bmpDraw at (0, 0) into a cleared framebuffer of the same dimensions
\* reproduces the original bit pattern exactly.
SnapshotRoundTripExact == SnapshotDisplayed => image = QrFrame

PngStep == last.op = "display_image" /\ last.codec = "png" /\ last.start /\ last.good

PngZeroIsBlack ==
    PngStep =>
        \A d \in drawn :
            (d[3] = BLACK) <=> (Rgb565(SrcRgb(Displayed.pix, d[1], d[2])) = 0)

(***************************************************************************)
(* The claims about the framebuffer's dimensions and the tracked state.    *)
(***************************************************************************)
\* C14: in every reachable state, and between a SetWidth and the following
\* SetHeight, the framebuffer's logical width * height is at most the 40000
\* bits of the fixed backing array.
PaintWithinCapacity ==
    /\ paint.width * paint.height <= Capacity
    /\ \A i \in 1 .. Len(resized) : resized[i].width * resized[i].height <= Capacity
    /\ Capacity = 40000

\* C14's case: display_qr_code has set the height of the 111 x 111 paint of
\* the start-up screen's QR frame and not yet its width.
PaintBetweenResizes ==
    /\ last.op = "display_qr_code"
    /\ Len(resized) = 2
    /\ resized[1] = [width |-> FrameQrSide, height |-> epd_width]
    /\ resized[2] = paint
    /\ resized[1] # paint

\* C15: the tracked display state (epdState) changes only in a step that
\* also issues a display-controller call; a request or upload that issues
\* none leaves it unchanged.
StateChangesOnlyWithControllerCall ==
    [][epdState' # epdState => issued' # <<>>]_vars

(***************************************************************************)
(* The claims about codec selection.                                       *)
(***************************************************************************)
ToLower(ch) ==
    CASE ch = "B" -> "b"
      [] ch = "M" -> "m"
      [] ch = "P" -> "p"
      [] ch = "N" -> "n"
      [] ch = "G" -> "g"
      [] OTHER -> ch

LowerCase(s) == [i \in 1 .. Len(s) |-> ToLower(s[i])]

\* C16: display_image selects the PNG codec iff the name ends in '.png'
\* compared case-sensitively, the bitmap codec iff it ends in '.bmp' compared
\* case-insensitively; for any other name it changes neither the framebuffer
\* nor the panel.
CodecBySuffix ==
    (last.op = "display_image" /\ last.start) =>
        /\ (last.codec = "png") <=> endsWith(last.name, <<".", "p", "n", "g">>)
        /\ (last.codec = "bmp")
               <=> endsWith(LowerCase(last.name), <<".", "b", "m", "p">>)
        /\ (last.codec = "none")
               => (issued = <<>> /\ drawn = {} /\ image = FrameQrImage({}))

RowOffset(f, row) ==
    IF f.height < 0
    THEN f.off + row * RowPad(f.width)
    ELSE f.off + (Abs(f.height) - 1 - row) * RowPad(f.width)

ReferenceColour(f, row, col) ==
    LET pos == RowOffset(f, row) + 3 * col
        b   == FileByte(f, pos)
        g   == FileByte(f, pos + 1)
        r   == FileByte(f, pos + 2)
    IN  IF bmpColour(r, g, b) # 0 THEN WHITE ELSE BLACK

\* C18: for every accepted header (either row order, any width, cropped or
\* not) each pixel bmpDraw writes has the colour the reference decoder gives
\* it: seek avoidance does not change the decoded result.
SeekAvoidanceKeepsPixels ==
    (BmpStep /\ last.good) =>
        \A d \in drawn : d[3] = ReferenceColour(Displayed, d[1], d[2])

(***************************************************************************)
(* The claim about the PNG scanline buffer.                                *)
(***************************************************************************)
\* C19: for every PNG that opens successfully, whatever its width, a decoded
\* scanline fills at most the 320 entries of the row buffer.
ScanlineWithinBuffer ==
    (PngStep /\ Displayed.height > 0) =>
        PngLineEntries(Displayed) <= PngLineCapacity

(***************************************************************************)
(* The claim about the bitmap codec's pixel conversion.                    *)
(***************************************************************************)
\* C20: the bitmap codec writes a pixel BLACK iff its R, G and B bytes are
\* all zero and WHITE otherwise, whatever the three bytes, the 16-bit width
\* of the intermediate pixel buffer included.
BlackIffAllZero ==
    (BmpStep /\ last.good) =>
        \A d \in drawn :
            (d[3] = BLACK) <=> (SrcRgb(Displayed.pix, d[2], d[1]) = <<0, 0, 0>>)

RedOnlyDrawnWhite ==
    /\ BmpStep
    /\ last.good
    /\ Displayed.pix.rgb = <<128, 0, 0>>
    /\ \E d \in drawn : d[3] = WHITE

(***************************************************************************)
(* The claim about bmpDraw's two buffers.                                  *)
(***************************************************************************)
\* The next step of the pixel loop takes three bytes from the chunk buffer
\* and appends a pixel.
TakesBytes ==
    /\ Decoder.pc = "col"
    /\ Decoder.col < Decoder.w
    /\ ~bmpAtPush(Decoder)

\* The index the bytes are taken from: a full buffer is reloaded first.
TakeIndex == IF Decoder.buffidx >= 3 * BUFFPIXEL THEN 0 ELSE Decoder.buffidx

\* C21: inside bmpDraw, whenever bytes are taken from the chunk buffer its
\* index is a multiple of 3 and at most 57, the pending-pixel count does not
\* exceed BUFFPIXEL when a pixel is appended, and the pending-pixel count is
\* 0 at the start of every row.
BuffersIndexedInRange ==
    /\ TakesBytes =>
          /\ TakeIndex % 3 = 0
          /\ TakeIndex <= 3 * BUFFPIXEL - 3
          /\ Decoder.lcdidx + 1 <= BUFFPIXEL
    /\ Decoder.lcdidx <= BUFFPIXEL
    /\ Decoder.lcdidx = Len(Decoder.lcdbuffer)
    /\ (Decoder.pc = "row") => (Decoder.lcdidx = 0)

FullPixelBufferPushed ==
    /\ bmpAtPush(Decoder)
    /\ Decoder.lcdidx = BUFFPIXEL
    /\ Decoder.col < Decoder.w
    /\ Decoder.row > 0

(***************************************************************************)
(* The claim about the frame display_image pushes.                         *)
(***************************************************************************)
\* bmpDraw from d to its end with nothing else running: the framebuffer its
\* pushColours calls leave, starting from img.
RECURSIVE bmpFrame(_, _, _)
bmpFrame(d, f, img) ==
    CHOOSE r \in {IF d1.pc = "done" THEN img
                  ELSE bmpFrame(bmpAfterPush(d1), f,
                                DrawAll(img, image_width, image_height,
                                        bmpPushWrites(d1))) :
                  d1 \in {bmpRun(d, f)}} : TRUE

\* The framebuffer one display_image call leaves when nothing else runs:
\* full size, cleared to WHITE, then the codec's writes.
DecodedAlone(f, codec) ==
    IF codec = "png"
    THEN DrawAll(PaintClear({}, image_width, image_height, WHITE),
                 image_width, image_height, pngDecode(f, image_width))
    ELSE bmpFrame(bmpStart(f, image_width, image_height, 0, 0), f,
                  PaintClear({}, image_width, image_height, WHITE))

PushesFrame == \E i \in IssuedAt : issued[i] = "DisplayPart"

\* C22: the framebuffer is reset to 200x200 and cleared to WHITE before the
\* codec writes, so the buffer display_image pushes to the panel holds the
\* decoded image and no pixel left over from another operation.
PushedFrameIsDecodedImage ==
    (last.op = "display_image" /\ last.done /\ PushesFrame) =>
        /\ paint = FullPaint
        /\ image = DecodedAlone(Displayed, last.codec)

(***************************************************************************)
(* The claim about the QR rasteriser.                                      *)
(***************************************************************************)
\* The grid being drawn, the column display_qr_code has just filled and the
\* locals it filled it with.
GridSize == QrSize(qr.version)
GridColumn == ctx["tmr"].x - 1
GridBlock == ctx["tmr"].blockSize
GridX == ctx["tmr"].display_x
GridY == ctx["tmr"].display_y

ColumnDrawn == last.op = "display_qr_code" /\ drawn # {}

\* floor(200 / n) when scaling is requested and 1 otherwise.
ExpectedBlock == IF qr.scale THEN image_width \div GridSize ELSE 1

\* The square of module (x, y): block x block pixels from its top-left corner.
ModuleSquare(x, y) ==
    {<<i, j>> : i \in (GridX + x * GridBlock) .. (GridX + x * GridBlock + GridBlock - 1),
                j \in (GridY + y * GridBlock) .. (GridY + y * GridBlock + GridBlock - 1)}

DarkModules ==
    {m \in (0 .. (GridSize - 1)) \X (0 .. (GridSize - 1)) : QrModule(qr.pat, m[1], m[2])}

QrDisplayed ==
    /\ last.op = "display_qr_code"
    /\ last.done
    /\ last.good
    /\ ~last.start

\* C23: for a grid of size n the block size is floor(200/n) when scaling is
\* requested and 1 otherwise; module (x, y) fills exactly the square of that
\* size at (dx + x*block, dy + y*block), BLACK iff the module is dark; every
\* square lies inside the 200x200 framebuffer, squares of distinct modules do
\* not overlap, and the grid is centred to within one pixel.
ModulesFillCentredSquares ==
    /\ ColumnDrawn =>
          /\ GridBlock = ExpectedBlock
          /\ \A y \in 0 .. (GridSize - 1) :
                \A p \in ModuleSquare(GridColumn, y) :
                    /\ p[1] \in 0 .. (image_width - 1)
                    /\ p[2] \in 0 .. (image_height - 1)
                    /\ <<p[1], p[2], IF QrModule(qr.pat, GridColumn, y)
                                     THEN BLACK ELSE WHITE>> \in drawn
                    /\ (PaintBit(paint.width, p[1], p[2]) \in image)
                           <=> QrModule(qr.pat, GridColumn, y)
          /\ Cardinality(drawn) = GridSize * GridBlock * GridBlock
          /\ GridX >= 0
          /\ GridX <= image_width - GridSize * GridBlock - GridX
          /\ image_width - GridSize * GridBlock - GridX <= GridX + 1
          /\ GridY >= 0
          /\ GridY <= image_height - GridSize * GridBlock - GridY
          /\ image_height - GridSize * GridBlock - GridY <= GridY + 1
    /\ QrDisplayed =>
          Cardinality(image) = Cardinality(DarkModules) * ExpectedBlock * ExpectedBlock

ScaledGridDisplayed ==
    /\ QrDisplayed
    /\ qr.scale
    /\ ExpectedBlock > 1
    /\ qr.pat = "diag"
    /\ (image_width - GridSize * ExpectedBlock) % 2 = 1

(***************************************************************************)
(* The claim about the full-frame updates of the startup screens.          *)
(***************************************************************************)
\* C24: every region loaded with SetFrameMemory is committed: on every path
\* of the startup screen, the WiFi-setup screen (QR generation failing or
\* not) and the status messages, each SetFrameMemory call is followed by a
\* DisplayFrame call before the operation that issued it returns.
FrameMemoryCommitted ==
    \A i \in IssuedAt :
        issued[i] = "SetFrameMemory" =>
            \E j \in IssuedAt : j > i /\ issued[j] = "DisplayFrame"

SetupScreenWithoutQr ==
    /\ last.op = "display_initialize_message"
    /\ ~last.good
    /\ Cardinality({i \in IssuedAt : issued[i] = "SetFrameMemory"}) = 2

(***************************************************************************)
(* The claim about the tracked current image.                              *)
(***************************************************************************)
\* C25: once the requests have completed and the timers have fired, the
\* tracked current image matches what was last pushed to the panel: when a
\* display_image call has ended and currentImage is the name it was given,
\* the call pushed a frame and that frame is the file's decoded content.
CurrentImageIsLastFramePushed ==
    (last.op = "display_image" /\ last.done /\ currentImage = last.name) =>
        /\ PushesFrame
        /\ image = DecodedAlone(Displayed, last.codec)

====
